---------------------------- MODULE Spec2Model ----------------------------
(***************************************************************************)
(* The invoicing and sales schema of the ERP module (src/erp/models) as a  *)
(* state machine over the stored records.                                  *)
(*                                                                         *)
(* The state is the database: for every model class the set of its stored  *)
(* rows.  The operations are the ones the ORM gives every model class:     *)
(* create and update (full_clean() followed by save(), as a form, the      *)
(* admin or a serializer does) and delete() (the deletion collector, which *)
(* follows each relation's on_delete rule).  Every field declaration of    *)
(* the source that takes part in a relation, a uniqueness rule or a        *)
(* validation is a field descriptor here, and so is the status of the      *)
(* documents; free text, labels and amounts that no rule reads are left    *)
(* out of the rows.                                                        *)
(*                                                                         *)
(* Decimal and float values are counted in hundredths (1.00 is 100), the   *)
(* two decimal places of the DecimalFields.  Dates are day numbers.        *)
(***************************************************************************)
EXTENDS Integers, FiniteSets, Sequences, TLC

VARIABLES db, today, last

vars == <<db, today, last>>

\* ------------------------------------------------------------------ bounds

\* Rows a table may hold (primary keys are 1..MaxRows).
MaxRows == 2

\* Rows the tables of a specification may hold together where it operates on
\* many tables.
MaxObjects == 5

\* Documents (invoices, quotations and sales together) stored at a time where
\* a specification tries every status on them.
MaxDocuments == 1

\* The last day the clock reaches (days are 0..MaxDay).
MaxDay == 1

\* How far, in hundredths, the numeric inputs go below 0.00 and above 1.00.
MaxExcess == 2

\* null=True: the value of an empty reference (primary keys start at 1).
NULL == 0

\* 1.00 in hundredths, the upper limit of the fractions.
One == 100

\* ------------------------------------------------------- field descriptors

\* django.db.models.fields.NOT_PROVIDED: the declaration gives no default.
NOT_PROVIDED == "NOT_PROVIDED"

\* choices is the set of the values the declaration lists ({} when it lists
\* none); default is recorded for the fields an operation leaves out.
Field(name, type, to, on_delete, null, blank, unique, validators, choices, default) ==
    [name |-> name, type |-> type, to |-> to, on_delete |-> on_delete,
     null |-> null, blank |-> blank, unique |-> unique,
     validators |-> validators, choices |-> choices, default |-> default]

ForeignKey(name, to, on_delete, null, blank) ==
    Field(name, "ForeignKey", to, on_delete, null, blank, FALSE, {}, {},
          NOT_PROVIDED)

OneToOneField(name, to, on_delete, null, blank) ==
    Field(name, "OneToOneField", to, on_delete, null, blank, TRUE, {}, {},
          NOT_PROVIDED)

DecimalField(name, validators) ==
    Field(name, "DecimalField", "", "", FALSE, FALSE, FALSE, validators, {},
          NOT_PROVIDED)

FloatField(name, validators) ==
    Field(name, "FloatField", "", "", FALSE, FALSE, FALSE, validators, {},
          NOT_PROVIDED)

DateField(name, validators) ==
    Field(name, "DateField", "", "", FALSE, FALSE, FALSE, validators, {},
          NOT_PROVIDED)

CharField(name) ==
    Field(name, "CharField", "", "", FALSE, FALSE, FALSE, {}, {},
          NOT_PROVIDED)

\* models.CharField(choices=..., default=...)
CharFieldChoices(name, choices, default) ==
    Field(name, "CharField", "", "", FALSE, FALSE, FALSE, {}, choices,
          default)

PositiveSmallIntegerField(name) ==
    Field(name, "PositiveSmallIntegerField", "", "", FALSE, FALSE, FALSE, {},
          {}, NOT_PROVIDED)

MinValueValidator(limit_value) ==
    [validator |-> "MinValueValidator", limit_value |-> limit_value]

MaxValueValidator(limit_value) ==
    [validator |-> "MaxValueValidator", limit_value |-> limit_value]

date_is_present_or_past ==
    [validator |-> "date_is_present_or_past", limit_value |-> 0]

\* What OneToOneField and ForeignKey fall back to when the declaration gives
\* no on_delete (sales.py, written for the framework version in which the
\* argument was optional).
DefaultOnDelete == "CASCADE"

\* ------------------------------------------------------------ the models
\* One definition per model class: the set of its field descriptors.

\* persons.models.Company, contact.models.Contact, persons.models.PhysicalAddress
\* and accounting.models.Account are imported; the schema reads only their
\* primary keys.
Company == {}

Contact == {}

PhysicalAddress == {}

Account == {}

\* accounting.models.Transaction, imported like Account.
Transaction == {}

FiscalPosition == {}

\* CompanyInvoice with on_delete=DO_NOTHING on its company.
CompanyInvoice_persons_company_DO_NOTHING ==
    { OneToOneField("persons_company", "Company", "DO_NOTHING", FALSE, FALSE),
      ForeignKey("fiscal_position", "FiscalPosition", "PROTECT", TRUE, TRUE),
      ForeignKey("fiscal_address", "PhysicalAddress", "CASCADE", TRUE, TRUE),
      ForeignKey("default_invoice_debit_account", "Account", "PROTECT",
                 TRUE, TRUE),
      ForeignKey("default_invoice_credit_account", "Account", "PROTECT",
                 TRUE, TRUE) }

CompanyInvoice ==
    { OneToOneField("persons_company", "Company", "CASCADE", FALSE, FALSE),
      ForeignKey("fiscal_position", "FiscalPosition", "PROTECT", TRUE, TRUE),
      ForeignKey("fiscal_address", "PhysicalAddress", "CASCADE", TRUE, TRUE),
      ForeignKey("default_invoice_debit_account", "Account", "PROTECT",
                 TRUE, TRUE),
      ForeignKey("default_invoice_credit_account", "Account", "PROTECT",
                 TRUE, TRUE) }

\* ContactInvoice with the fiscal position declared optional, as
\* CompanyInvoice declares it.
ContactInvoice_fiscal_position_optional ==
    { OneToOneField("contact_contact", "Contact", "CASCADE", FALSE, FALSE),
      ForeignKey("fiscal_position", "FiscalPosition", "PROTECT", TRUE, TRUE),
      ForeignKey("fiscal_address", "PhysicalAddress", "CASCADE", FALSE, FALSE) }

ContactInvoice ==
    { OneToOneField("contact_contact", "Contact", "CASCADE", FALSE, FALSE),
      ForeignKey("fiscal_position", "FiscalPosition", "PROTECT", FALSE, FALSE),
      ForeignKey("fiscal_address", "PhysicalAddress", "CASCADE", FALSE, FALSE) }

\* VAT with the MaxValueValidator left out of tax.
VAT_tax_no_MaxValueValidator ==
    { DecimalField("tax", {MinValueValidator(0)}) }

VAT ==
    { DecimalField("tax", {MinValueValidator(0), MaxValueValidator(One)}) }

\* Product with on_delete=CASCADE on its VAT.
Product_vat_CASCADE ==
    { ForeignKey("invoice_company", "CompanyInvoice", "PROTECT", FALSE, FALSE),
      CharField("name"),
      ForeignKey("vat", "VAT", "CASCADE", FALSE, FALSE) }

Product ==
    { ForeignKey("invoice_company", "CompanyInvoice", "PROTECT", FALSE, FALSE),
      CharField("name"),
      ForeignKey("vat", "VAT", "PROTECT", FALSE, FALSE) }

\* Product.Meta without unique_together.
Product_unique_together_none == {}

Product_unique_together == { {"invoice_company", "name"} }

InvoiceLine ==
    { ForeignKey("product", "Product", "PROTECT", FALSE, FALSE),
      DecimalField("discount",
                   {MinValueValidator(0), MaxValueValidator(One)}) }

InvoiceType == {}

INVOICE_STATUSTYPE_DRAFT == "D"

INVOICE_STATUSTYPE_ACCEPTED == "A"

INVOICE_STATUSTYPE_AUTHORIZED == "T"

INVOICE_STATUSTYPE_CANCELED == "C"

INVOICE_STATUS_TYPES ==
    { INVOICE_STATUSTYPE_DRAFT, INVOICE_STATUSTYPE_ACCEPTED,
      INVOICE_STATUSTYPE_AUTHORIZED, INVOICE_STATUSTYPE_CANCELED }

\* Invoice with no validator on invoice_date.
Invoice_invoice_date_unvalidated ==
    { ForeignKey("invoice_company", "CompanyInvoice", "PROTECT", FALSE, FALSE),
      ForeignKey("invoice_contact", "ContactInvoice", "PROTECT", FALSE, FALSE),
      ForeignKey("related_invoice", "Invoice", "PROTECT", TRUE, TRUE),
      ForeignKey("invoice_type", "InvoiceType", "PROTECT", TRUE, TRUE),
      ForeignKey("transaction", "Transaction", "PROTECT", TRUE, TRUE),
      DateField("invoice_date", {}),
      CharFieldChoices("status", INVOICE_STATUS_TYPES,
                       INVOICE_STATUSTYPE_DRAFT) }

\* Invoice with no choices on status.
Invoice_status_no_choices ==
    { ForeignKey("invoice_company", "CompanyInvoice", "PROTECT", FALSE, FALSE),
      ForeignKey("invoice_contact", "ContactInvoice", "PROTECT", FALSE, FALSE),
      ForeignKey("related_invoice", "Invoice", "PROTECT", TRUE, TRUE),
      ForeignKey("invoice_type", "InvoiceType", "PROTECT", TRUE, TRUE),
      ForeignKey("transaction", "Transaction", "PROTECT", TRUE, TRUE),
      DateField("invoice_date", {date_is_present_or_past}),
      CharFieldChoices("status", {}, INVOICE_STATUSTYPE_DRAFT) }

Invoice ==
    { ForeignKey("invoice_company", "CompanyInvoice", "PROTECT", FALSE, FALSE),
      ForeignKey("invoice_contact", "ContactInvoice", "PROTECT", FALSE, FALSE),
      ForeignKey("related_invoice", "Invoice", "PROTECT", TRUE, TRUE),
      ForeignKey("invoice_type", "InvoiceType", "PROTECT", TRUE, TRUE),
      ForeignKey("transaction", "Transaction", "PROTECT", TRUE, TRUE),
      DateField("invoice_date", {date_is_present_or_past}),
      CharFieldChoices("status", INVOICE_STATUS_TYPES,
                       INVOICE_STATUSTYPE_DRAFT) }

ContactInvoiceAR ==
    { OneToOneField("invoice_contact", "ContactInvoice", "CASCADE",
                    FALSE, FALSE) }

\* CompanyInvoiceAR with a ForeignKey in place of the OneToOneField.
CompanyInvoiceAR_invoice_company_ForeignKey ==
    { ForeignKey("invoice_company", "CompanyInvoice", "CASCADE",
                 FALSE, FALSE) }

CompanyInvoiceAR ==
    { OneToOneField("invoice_company", "CompanyInvoice", "CASCADE",
                    FALSE, FALSE) }

\* WebServiceSession with on_delete=CASCADE on its company.
WebServiceSession_invoicear_company_CASCADE ==
    { ForeignKey("invoicear_company", "CompanyInvoiceAR", "CASCADE",
                 FALSE, FALSE) }

WebServiceSession ==
    { ForeignKey("invoicear_company", "CompanyInvoiceAR", "PROTECT",
                 FALSE, FALSE) }

PointOfSaleAR ==
    { ForeignKey("invoicear_company", "CompanyInvoiceAR", "PROTECT",
                 FALSE, FALSE),
      PositiveSmallIntegerField("afip_id"),
      ForeignKey("fiscal_address", "PhysicalAddress", "PROTECT",
                 FALSE, FALSE) }

\* PointOfSaleAR.Meta with afip_id left out of unique_together.
PointOfSaleAR_unique_together_none == {}

PointOfSaleAR_unique_together == { {"invoicear_company", "afip_id"} }

ConceptType == {}

InvoiceARHasVATSubtotal == { ForeignKey("vat", "VAT", "PROTECT", FALSE, FALSE) }

FiscalPositionHasInvoiceTypeAllowed ==
    { ForeignKey("fiscal_position_issuer", "FiscalPosition", "PROTECT",
                 FALSE, FALSE),
      ForeignKey("invoice_type", "InvoiceType", "PROTECT", FALSE, FALSE),
      ForeignKey("fiscal_position_receiver", "FiscalPosition", "PROTECT",
                 FALSE, FALSE) }

ProductCategory ==
    { ForeignKey("persons_company", "Company", "PROTECT", FALSE, FALSE),
      CharField("name") }

ProductCategory_unique_together == { {"persons_company", "name"} }

\* class InvoiceAR(Invoice): the table of the subclass holds its own fields
\* and invoice_ptr, the parent link to the Invoice row with the same primary
\* key that holds the inherited fields.
InvoiceAR ==
    { OneToOneField("invoice_ptr", "Invoice", "CASCADE", FALSE, FALSE),
      ForeignKey("invoicear_company", "CompanyInvoiceAR", "PROTECT",
                 FALSE, FALSE),
      ForeignKey("invoicear_contact", "ContactInvoiceAR", "PROTECT",
                 FALSE, FALSE),
      ForeignKey("point_of_sale_ar", "PointOfSaleAR", "PROTECT",
                 FALSE, FALSE),
      ForeignKey("concept_type", "ConceptType", "PROTECT", FALSE, FALSE) }

ProductSales ==
    { OneToOneField("invoice_product", "Product", DefaultOnDelete,
                    FALSE, FALSE) }

QuotationLine ==
    { ForeignKey("product", "Product", "PROTECT", FALSE, FALSE),
      ForeignKey("product_vat_override", "VAT", "PROTECT", TRUE, TRUE),
      FloatField("product_discount", {}) }

QUOTATION_STATUSTYPE_DRAFT == "D"

QUOTATION_STATUSTYPE_SAVED == "SA"

QUOTATION_STATUSTYPE_SOLD == "SO"

QUOTATION_STATUSTYPE_CANCELED == "C"

QUOTATION_STATUS_TYPES ==
    { QUOTATION_STATUSTYPE_DRAFT, QUOTATION_STATUSTYPE_SAVED,
      QUOTATION_STATUSTYPE_SOLD, QUOTATION_STATUSTYPE_CANCELED }

\* Quotation with no validator on quotation_date.
Quotation_quotation_date_unvalidated ==
    { ForeignKey("persons_company", "Company", "PROTECT", FALSE, FALSE),
      DateField("quotation_date", {}),
      CharFieldChoices("status", QUOTATION_STATUS_TYPES,
                       QUOTATION_STATUSTYPE_DRAFT) }

Quotation ==
    { ForeignKey("persons_company", "Company", "PROTECT", FALSE, FALSE),
      DateField("quotation_date", {date_is_present_or_past}),
      CharFieldChoices("status", QUOTATION_STATUS_TYPES,
                       QUOTATION_STATUSTYPE_DRAFT) }

SaleLine ==
    { ForeignKey("product", "ProductSales", "PROTECT", FALSE, FALSE),
      ForeignKey("product_vat_override", "VAT", "PROTECT", TRUE, TRUE),
      FloatField("product_discount", {}) }

SALE_STATUSTYPE_DRAFT == "D"

SALE_STATUSTYPE_SAVED == "S"

SALE_STATUSTYPE_INVOICED == "I"

SALE_STATUSTYPE_CANCELED == "C"

SALE_STATUS_TYPES ==
    { SALE_STATUSTYPE_DRAFT, SALE_STATUSTYPE_SAVED, SALE_STATUSTYPE_INVOICED,
      SALE_STATUSTYPE_CANCELED }

\* Sale with a ForeignKey to its quotation in place of the OneToOneField.
Sale_quotation_ForeignKey ==
    { ForeignKey("quotation", "Quotation", DefaultOnDelete, TRUE, TRUE),
      ForeignKey("persons_company", "Company", "PROTECT", FALSE, FALSE),
      DateField("sale_date", {date_is_present_or_past}),
      CharFieldChoices("status", SALE_STATUS_TYPES, SALE_STATUSTYPE_DRAFT) }

Sale ==
    { OneToOneField("quotation", "Quotation", DefaultOnDelete, TRUE, TRUE),
      ForeignKey("persons_company", "Company", "PROTECT", FALSE, FALSE),
      DateField("sale_date", {date_is_present_or_past}),
      CharFieldChoices("status", SALE_STATUS_TYPES, SALE_STATUSTYPE_DRAFT) }

Models ==
    { "Company", "Contact", "PhysicalAddress", "Account", "FiscalPosition",
      "CompanyInvoice", "ContactInvoice", "VAT", "Product", "InvoiceLine",
      "Invoice", "ContactInvoiceAR", "CompanyInvoiceAR", "PointOfSaleAR",
      "ProductSales", "QuotationLine", "Quotation", "SaleLine", "Sale",
      "WebServiceSession", "ConceptType", "InvoiceAR", "Transaction",
      "InvoiceType", "InvoiceARHasVATSubtotal",
      "FiscalPositionHasInvoiceTypeAllowed", "ProductCategory" }

\* The field descriptors of the table of model class m.
Fields(m) ==
    CASE m = "Company" -> Company
      [] m = "Contact" -> Contact
      [] m = "PhysicalAddress" -> PhysicalAddress
      [] m = "Account" -> Account
      [] m = "FiscalPosition" -> FiscalPosition
      [] m = "CompanyInvoice" -> CompanyInvoice
      [] m = "ContactInvoice" -> ContactInvoice
      [] m = "VAT" -> VAT
      [] m = "Product" -> Product
      [] m = "InvoiceLine" -> InvoiceLine
      [] m = "Invoice" -> Invoice
      [] m = "ContactInvoiceAR" -> ContactInvoiceAR
      [] m = "CompanyInvoiceAR" -> CompanyInvoiceAR
      [] m = "PointOfSaleAR" -> PointOfSaleAR
      [] m = "ProductSales" -> ProductSales
      [] m = "QuotationLine" -> QuotationLine
      [] m = "Quotation" -> Quotation
      [] m = "SaleLine" -> SaleLine
      [] m = "Sale" -> Sale
      [] m = "WebServiceSession" -> WebServiceSession
      [] m = "ConceptType" -> ConceptType
      [] m = "InvoiceAR" -> InvoiceAR
      [] m = "Transaction" -> Transaction
      [] m = "InvoiceType" -> InvoiceType
      [] m = "InvoiceARHasVATSubtotal" -> InvoiceARHasVATSubtotal
      [] m = "FiscalPositionHasInvoiceTypeAllowed" ->
             FiscalPositionHasInvoiceTypeAllowed
      [] m = "ProductCategory" -> ProductCategory

\* The model classes m inherits its fields from (multi-table inheritance).
Parents(m) == IF m = "InvoiceAR" THEN {"Invoice"} ELSE {}

\* The names of the parent links of m.
parent_link(m) == IF m = "InvoiceAR" THEN {"invoice_ptr"} ELSE {}

\* The fields an instance of m is given values for: its own, the parent
\* links apart, and the inherited ones.
InitFields(m) ==
    IF Parents(m) = {}
    THEN Fields(m)
    ELSE { f \in Fields(m) : f.name \notin parent_link(m) }
            \cup UNION { Fields(p) : p \in Parents(m) }

\* Meta.unique_together of model class m: a set of sets of field names.
unique_together(m) ==
    CASE m = "Product" -> Product_unique_together
      [] m = "PointOfSaleAR" -> PointOfSaleAR_unique_together
      [] m = "ProductCategory" -> ProductCategory_unique_together
      [] OTHER -> {}

IsRelation(f) == f.type \in {"ForeignKey", "OneToOneField"}

\* An empty reference.
IsNull(f, value) == IsRelation(f) /\ value = NULL

\* ---------------------------------------------------------------- rows

\* A stored row: the primary key and the field values.
Row(pk, vals) == ("pk" :> pk) @@ vals

PksOf(m) == { r.pk : r \in db[m] }

Get(m, pk) == CHOOSE r \in db[m] : r.pk = pk

\* The values of row r without its primary key.
ValsOf(m, r) == [n \in { f.name : f \in Fields(m) } |-> r[n]]

\* The primary key a new row of m gets: the first one not in use, in the
\* table of the parent for a subclass.
NewPk(m) ==
    LET t == IF Parents(m) = {} THEN m ELSE CHOOSE p \in Parents(m) : TRUE
    IN  CHOOSE k \in 1..(Cardinality(db[t]) + 1) : k \notin PksOf(t)

\* ----------------------------------------------------------- validation

\* common.validators.date_is_present_or_past: a date later than the current
\* date is refused.
date_is_present_or_past_fails(value) == value > today

\* BaseValidator.__call__: the validator raises when compare(value, limit) is
\* true; compare is a < b for MinValueValidator and a > b for MaxValueValidator.
ValidatorFails(v, value) ==
    CASE v.validator = "MinValueValidator" -> value < v.limit_value
      [] v.validator = "MaxValueValidator" -> value > v.limit_value
      [] v.validator = "date_is_present_or_past" ->
             date_is_present_or_past_fails(value)

\* Field.run_validators: some validator of the declaration raises.
run_validators(f, value) == \E v \in f.validators : ValidatorFails(v, value)

\* Field.clean for one field of a candidate row: an empty reference is an
\* error unless the declaration says blank=True; a reference must name a
\* stored row of its target; a value of a field with choices must be one of
\* them; the declared validators run on the value.
FieldError(f, value) ==
    IF IsRelation(f)
    THEN IF IsNull(f, value)
         THEN ~f.blank
         ELSE value \notin PksOf(f.to)
    ELSE \/ f.choices # {} /\ value \notin f.choices
         \/ run_validators(f, value)

\* Model.clean_fields: the names of the fields whose value is refused.
clean_fields(m, vals) ==
    { f.name : f \in { g \in InitFields(m) : FieldError(g, vals[g.name]) } }

\* Model.validate_unique: unique fields (a OneToOneField is one) and
\* Meta.unique_together, against the other stored rows of the model; a check
\* in which a value is NULL is skipped.
validate_unique(m, pk, vals) ==
    LET others == { r \in db[m] : r.pk # pk }
        single == { f.name : f \in { g \in Fields(m) :
                       /\ g.name \notin parent_link(m)
                       /\ g.unique
                       /\ ~IsNull(g, vals[g.name])
                       /\ \E r \in others : r[g.name] = vals[g.name] } }
        together == { u \in unique_together(m) :
                       /\ \A g \in Fields(m) :
                              g.name \in u => ~IsNull(g, vals[g.name])
                       /\ \E r \in others : \A n \in u : r[n] = vals[n] }
    IN  single \cup (IF together = {} THEN {} ELSE {"__all__"})

\* Model.full_clean: the errors of the candidate row vals for the row pk of m
\* (pk is NULL for a row that is not stored yet).
full_clean(m, pk, vals) ==
    clean_fields(m, vals) \cup validate_unique(m, pk, vals)
        \cup UNION { validate_unique(p, pk, vals) : p \in Parents(m) }

\* ------------------------------------------------------------- deletion

\* The rows, as <<model, pk>>, that hold a reference with the given on_delete
\* rule to some object of S.
related_objects(S, on_delete) ==
    UNION { { <<m, r.pk>> : r \in { x \in db[m] :
                \E f \in Fields(m) :
                    /\ IsRelation(f)
                    /\ f.on_delete = on_delete
                    /\ <<f.to, x[f.name]>> \in S } } :
            m \in { t \in Models : db[t] # {} } }

\* The parent rows of the objects of S.
parent_objs(S) ==
    UNION { { <<p, x[2]>> : p \in Parents(x[1]) } : x \in S }

\* A collector that follows no CASCADE reference.
collect_no_cascade(S) == S \cup parent_objs(S)

\* Collector.collect: the objects deleted with S, following CASCADE and
\* taking the parent row of a subclass row.
RECURSIVE collect(_)
collect(S) ==
    LET T == S \cup related_objects(S, "CASCADE") \cup parent_objs(S)
    IN  IF T = S THEN S ELSE collect(T)

\* The collector raises ProtectedError when a row holds a PROTECT reference
\* to an object it has collected.
protected(S) == related_objects(S, "PROTECT") # {}

\* The database without the objects of S.
Without(S) == [m \in Models |-> { r \in db[m] : <<m, r.pk>> \notin S }]

\* --------------------------------------------------------------- inputs
\* A scope names the model classes a specification operates on, the rows a
\* table may hold and the values its operations are tried with:
\*   [models, rows, total, inputs]: a table holds up to `rows` rows and the
\*   tables of `models` together up to `total`; inputs is a record from field
\*   names to value sets.

\* No bound on the rows the tables hold together: more than they can.
Unbounded == MaxRows * Cardinality(Models) + 1

\* The rows the tables of the scope hold together.
RECURSIVE TotalRows(_)
TotalRows(ms) ==
    IF ms = {} THEN 0
    ELSE LET m == CHOOSE x \in ms : TRUE
         IN  Cardinality(db[m]) + TotalRows(ms \ {m})

\* There is room for one more row of m (and of its parent).
HasRoom(m, scope) ==
    /\ \A t \in {m} \cup Parents(m) : Cardinality(db[t]) < scope.rows
    /\ TotalRows(scope.models) + Cardinality(Parents(m)) < scope.total

\* The values an operation is tried with for field f.  A reference the scope
\* does not narrow is tried with NULL and with every primary key, stored or
\* not.
Inputs(f, scope) ==
    IF f.name \in DOMAIN scope.inputs
    THEN scope.inputs[f.name]
    ELSE 0..scope.rows

RECURSIVE RowsOver(_, _)
RowsOver(fs, scope) ==
    IF fs = {} THEN { <<>> }
    ELSE LET f == CHOOSE g \in fs : TRUE
         IN  { (f.name :> v) @@ rest :
                 v \in Inputs(f, scope), rest \in RowsOver(fs \ {f}, scope) }

\* The candidate rows of m in the scope.
Rows(m, scope) == RowsOver(InitFields(m), scope)

\* Field.has_default
has_default(f) == f.default # NOT_PROVIDED

\* The keyword arguments a row of m is constructed with: a value for every
\* field, or for every field but some of those that have a default.
Kwargs(m, scope) ==
    LET defaulted ==
            { f.name : f \in { g \in InitFields(m) : has_default(g) } }
    IN  IF defaulted = {}
        THEN Rows(m, scope)
        ELSE { [n \in (DOMAIN vals) \ omitted |-> vals[n]] :
                 vals \in Rows(m, scope), omitted \in SUBSET defaulted }

\* Model.__init__: a field the keyword arguments leave out gets its default.
Model_init(m, kwargs) ==
    IF \A f \in InitFields(m) : f.name \in DOMAIN kwargs
    THEN kwargs
    ELSE [n \in { f.name : f \in InitFields(m) } |->
            IF n \in DOMAIN kwargs
            THEN kwargs[n]
            ELSE (CHOOSE f \in InitFields(m) : f.name = n).default]

\* Model.save: the database with the row pk of m set from vals; for a subclass
\* the row of the parent too, and the parent link holds the primary key.
save(m, pk, vals) ==
    IF Parents(m) = {}
    THEN [db EXCEPT ![m] = { r \in @ : r.pk # pk } \cup {Row(pk, vals)}]
    ELSE [t \in Models |->
            IF t \in {m} \cup Parents(m)
            THEN { r \in db[t] : r.pk # pk }
                    \cup { Row(pk, [n \in { f.name : f \in Fields(t) } |->
                                      IF n \in parent_link(t) THEN pk
                                      ELSE vals[n]]) }
            ELSE db[t]]

\* ----------------------------------------------------------- operations

\* What the last operation was and how it ended: the fields it gave a value
\* for, the values of the row, the ValidationError's fields for a refused
\* row, the objects delete() reports deleted.
NoOp == [op |-> "none", model |-> "", pk |-> NULL, given |-> {},
         vals |-> <<>>, result |-> "ok", errors |-> {}, deleted |-> {}]

Outcome(op, m, pk, given, vals, result, errors, deleted) ==
    [op |-> op, model |-> m, pk |-> pk, given |-> given, vals |-> vals,
     result |-> result, errors |-> errors, deleted |-> deleted]

\* obj = m(**kwargs); obj.full_clean(); obj.save()
Create(m, kwargs, scope) ==
    LET vals == Model_init(m, kwargs)
        errors == full_clean(m, NULL, vals)
    IN  /\ IF errors # {}
           THEN /\ db' = db
                /\ last' = Outcome("create", m, NULL, DOMAIN kwargs, vals,
                                   "ValidationError", errors, {})
           ELSE /\ HasRoom(m, scope)
                /\ db' = save(m, NewPk(m), vals)
                /\ last' = Outcome("create", m, NewPk(m), DOMAIN kwargs,
                                   vals, "ok", {}, {})
        /\ UNCHANGED today

\* Update with a guard on the status: a Canceled row keeps its status.
Update_Canceled_is_final(m, pk, vals) ==
    LET errors == full_clean(m, pk, vals)
    IN  /\ pk \in PksOf(m)
        /\ ("status" \in DOMAIN vals /\ Get(m, pk).status = "C")
           => vals.status = "C"
        /\ IF errors # {}
           THEN /\ db' = db
                /\ last' = Outcome("update", m, pk, DOMAIN vals, vals,
                                   "ValidationError", errors, {})
           ELSE /\ db' = save(m, pk, vals)
                /\ last' = Outcome("update", m, pk, DOMAIN vals, vals,
                                   "ok", {}, {})
        /\ UNCHANGED today

\* obj = m.objects.get(pk=pk); obj.<field> = ...; obj.full_clean(); obj.save()
Update(m, pk, vals) ==
    LET errors == full_clean(m, pk, vals)
    IN  /\ pk \in PksOf(m)
        /\ IF errors # {}
           THEN /\ db' = db
                /\ last' = Outcome("update", m, pk, DOMAIN vals, vals,
                                   "ValidationError", errors, {})
           ELSE /\ db' = save(m, pk, vals)
                /\ last' = Outcome("update", m, pk, DOMAIN vals, vals,
                                   "ok", {}, {})
        /\ UNCHANGED today

\* m.objects.get(pk=pk).delete()
Delete(m, pk) ==
    LET S == collect({<<m, pk>>})
    IN  /\ pk \in PksOf(m)
        /\ IF protected(S)
           THEN /\ db' = db
                /\ last' = Outcome("delete", m, pk, {}, <<>>,
                                   "ProtectedError", {}, {})
           ELSE /\ db' = Without(S)
                /\ last' = Outcome("delete", m, pk, {}, <<>>, "ok", {}, S)
        /\ UNCHANGED today

\* The current date moves on by a day.
Tick ==
    /\ today < MaxDay
    /\ today' = today + 1
    /\ UNCHANGED <<db, last>>

\* Any operation on a model class of the scope.
Step(scope) ==
    \E m \in scope.models :
        \/ \E kwargs \in Kwargs(m, scope) : Create(m, kwargs, scope)
        \/ \E pk \in PksOf(m), vals \in Rows(m, scope) : Update(m, pk, vals)
        \/ \E pk \in PksOf(m) : Delete(m, pk)

\* A database holding, of each model class of `stored`, the rows given.
Fixture(stored) ==
    [m \in Models |-> IF m \in DOMAIN stored THEN stored[m] ELSE {}]

\* ------------------------------------------------------- specifications

\* Protected references: the master data (accounts, fiscal positions, VAT
\* rates, products) and the records that refer to them, for one company, one
\* contact and one address.
ProtectScope ==
    [models |-> {"Account", "FiscalPosition", "VAT", "Product", "InvoiceLine",
                 "QuotationLine", "CompanyInvoice", "ContactInvoice"},
     rows |-> MaxRows, total |-> MaxObjects,
     inputs |-> [persons_company |-> {1}, contact_contact |-> {1},
                 fiscal_address |-> {1}, invoice_company |-> {1},
                 product |-> {1}, product_vat_override |-> {NULL, 1},
                 fiscal_position |-> {NULL, 1},
                 default_invoice_debit_account |-> {NULL, 1},
                 default_invoice_credit_account |-> {NULL, 1},
                 name |-> {"a"}, tax |-> {0}, discount |-> {0},
                 product_discount |-> {0}]]

InitProtect ==
    /\ db = Fixture([Company |-> {[pk |-> 1]}, Contact |-> {[pk |-> 1]},
                     PhysicalAddress |-> {[pk |-> 1]}])
    /\ today = 0
    /\ last = NoOp

NextProtect == Step(ProtectScope)

SpecProtect == InitProtect /\ [][NextProtect]_vars

\* Cascades: companies, contacts and addresses with their invoicing
\* extensions, the national extensions of those, and the products, points of
\* sale and sales extensions that refer to them.
CascadeScope ==
    [models |-> {"Company", "Contact", "PhysicalAddress", "CompanyInvoice",
                 "ContactInvoice", "CompanyInvoiceAR", "ContactInvoiceAR",
                 "Product", "ProductSales", "PointOfSaleAR"},
     rows |-> MaxRows, total |-> MaxObjects,
     inputs |-> [persons_company |-> {1}, contact_contact |-> {1},
                 invoice_company |-> {1}, invoice_contact |-> {1},
                 invoicear_company |-> {1}, invoice_product |-> {1},
                 fiscal_address |-> {NULL, 1},
                 fiscal_position |-> {1}, vat |-> {1}, name |-> {"a"},
                 default_invoice_debit_account |-> {NULL},
                 default_invoice_credit_account |-> {NULL},
                 afip_id |-> {1}]]

InitCascade ==
    /\ db = Fixture([FiscalPosition |-> {[pk |-> 1]},
                     VAT |-> {[pk |-> 1, tax |-> 0]}])
    /\ today = 0
    /\ last = NoOp

NextCascade == Step(CascadeScope)

SpecCascade == InitCascade /\ [][NextCascade]_vars

\* One-to-one extensions: a company, a contact and their invoicing
\* extensions, the national extensions of those, a product and its sales
\* extension.
ExtensionScope ==
    [models |-> {"CompanyInvoice", "ContactInvoice", "CompanyInvoiceAR",
                 "ContactInvoiceAR", "Product", "ProductSales"},
     rows |-> MaxRows, total |-> Unbounded,
     inputs |-> [fiscal_position |-> {1}, fiscal_address |-> {1}, vat |-> {1},
                 default_invoice_debit_account |-> {NULL},
                 default_invoice_credit_account |-> {NULL},
                 name |-> {"a"}]]

InitExtension ==
    /\ db = Fixture([Company |-> {[pk |-> 1]},
                     Contact |-> {[pk |-> 1]},
                     PhysicalAddress |-> {[pk |-> 1]},
                     FiscalPosition |-> {[pk |-> 1]},
                     VAT |-> {[pk |-> 1, tax |-> 0]}])
    /\ today = 0
    /\ last = NoOp

NextExtension == Step(ExtensionScope)

SpecExtension == InitExtension /\ [][NextExtension]_vars

\* The invoicing extensions of two companies, as other specifications start
\* with them.
TwoCompanies ==
    [Company |-> {[pk |-> 1], [pk |-> 2]},
     CompanyInvoice |->
        { [pk |-> c, persons_company |-> c, fiscal_position |-> NULL,
           fiscal_address |-> NULL, default_invoice_debit_account |-> NULL,
           default_invoice_credit_account |-> NULL] : c \in {1, 2} }]

\* Products of two invoicing companies.
ProductScope ==
    [models |-> {"Product"}, rows |-> MaxRows, total |-> Unbounded,
     inputs |-> [vat |-> {1}, name |-> {"a", "b"}]]

InitProduct ==
    /\ db = Fixture(TwoCompanies @@ [VAT |-> {[pk |-> 1, tax |-> 0]}])
    /\ today = 0
    /\ last = NoOp

NextProduct == Step(ProductScope)

SpecProduct == InitProduct /\ [][NextProduct]_vars

\* Points of sale of two companies registered with the tax authority.
PointOfSaleScope ==
    [models |-> {"PointOfSaleAR"}, rows |-> MaxRows, total |-> Unbounded,
     inputs |-> [fiscal_address |-> {1}, afip_id |-> {1, 2}]]

InitPointOfSale ==
    /\ db = Fixture(TwoCompanies @@
                    [CompanyInvoiceAR |->
                        { [pk |-> c, invoice_company |-> c] : c \in {1, 2} },
                     PhysicalAddress |-> {[pk |-> 1]}])
    /\ today = 0
    /\ last = NoOp

NextPointOfSale == Step(PointOfSaleScope)

SpecPointOfSale == InitPointOfSale /\ [][NextPointOfSale]_vars

\* The numbers the fraction fields are tried with, in hundredths: those
\* within MaxExcess of 0.00 and of 1.00, on both sides, and 0.50.
NumberInputs ==
    { x \in (0 - MaxExcess)..(One + MaxExcess) :
        x <= MaxExcess \/ x >= One - MaxExcess \/ 2 * x = One }

\* VAT rates.
VATScope ==
    [models |-> {"VAT"}, rows |-> MaxRows, total |-> Unbounded,
     inputs |-> [tax |-> NumberInputs]]

InitVAT ==
    /\ db = Fixture(<<>>)
    /\ today = 0
    /\ last = NoOp

NextVAT == Step(VATScope)

SpecVAT == InitVAT /\ [][NextVAT]_vars

\* A product of a company with its sales extension, as the specifications of
\* the lines start with them.
OneProduct ==
    [Company |-> {[pk |-> 1]},
     CompanyInvoice |->
        { [pk |-> 1, persons_company |-> 1, fiscal_position |-> NULL,
           fiscal_address |-> NULL, default_invoice_debit_account |-> NULL,
           default_invoice_credit_account |-> NULL] },
     VAT |-> {[pk |-> 1, tax |-> 0]},
     Product |-> {[pk |-> 1, invoice_company |-> 1, name |-> "a", vat |-> 1]},
     ProductSales |-> {[pk |-> 1, invoice_product |-> 1]}]

\* The lines of invoices, quotations and sales, for one product.
LineScope ==
    [models |-> {"InvoiceLine", "QuotationLine", "SaleLine"},
     rows |-> MaxRows, total |-> MaxRows,
     inputs |-> [product |-> {1}, product_vat_override |-> {NULL},
                 discount |-> NumberInputs,
                 product_discount |-> NumberInputs]]

InitLine ==
    /\ db = Fixture(OneProduct)
    /\ today = 0
    /\ last = NoOp

NextLine == Step(LineScope)

SpecLine == InitLine /\ [][NextLine]_vars

\* A company and a contact with their invoicing extensions, as the
\* specification of the dated documents starts with them.
OneCustomer ==
    [Company |-> {[pk |-> 1]},
     Contact |-> {[pk |-> 1]},
     PhysicalAddress |-> {[pk |-> 1]},
     FiscalPosition |-> {[pk |-> 1]},
     CompanyInvoice |->
        { [pk |-> 1, persons_company |-> 1, fiscal_position |-> 1,
           fiscal_address |-> 1, default_invoice_debit_account |-> NULL,
           default_invoice_credit_account |-> NULL] },
     ContactInvoice |->
        { [pk |-> 1, contact_contact |-> 1, fiscal_position |-> 1,
           fiscal_address |-> 1] }]

\* Invoices, quotations and sales of one company, dated from day 0 to the
\* day after the last one the clock reaches.
DocumentScope ==
    [models |-> {"Invoice", "Quotation", "Sale"},
     rows |-> MaxRows, total |-> MaxRows,
     inputs |-> [invoice_company |-> {1}, invoice_contact |-> {1},
                 related_invoice |-> {NULL},
                 invoice_type |-> {NULL}, transaction |-> {NULL}, persons_company |-> {1},
                 quotation |-> {NULL},
                 status |-> {INVOICE_STATUSTYPE_DRAFT},
                 invoice_date |-> 0..(MaxDay + 1),
                 quotation_date |-> 0..(MaxDay + 1),
                 sale_date |-> 0..(MaxDay + 1)]]

InitDocument ==
    /\ db = Fixture(OneCustomer)
    /\ today = 0
    /\ last = NoOp

NextDocument == Step(DocumentScope) \/ Tick

SpecDocument == InitDocument /\ [][NextDocument]_vars

\* The statuses the documents are tried with: the ones of the three
\* enumerations and one that is in none of them.
StatusInputs ==
    INVOICE_STATUS_TYPES \cup QUOTATION_STATUS_TYPES \cup SALE_STATUS_TYPES
        \cup {"X"}

\* Invoices, quotations and sales of one company, all dated day 0, in every
\* status.
StatusScope ==
    [models |-> {"Invoice", "Quotation", "Sale"},
     rows |-> MaxRows, total |-> MaxDocuments,
     inputs |-> [invoice_company |-> {1}, invoice_contact |-> {1},
                 related_invoice |-> {NULL},
                 invoice_type |-> {NULL}, transaction |-> {NULL}, persons_company |-> {1},
                 quotation |-> {NULL},
                 status |-> StatusInputs,
                 invoice_date |-> {0}, quotation_date |-> {0},
                 sale_date |-> {0}]]

InitStatus ==
    /\ db = Fixture(OneCustomer)
    /\ today = 0
    /\ last = NoOp

NextStatus == Step(StatusScope)

SpecStatus == InitStatus /\ [][NextStatus]_vars

\* Quotations of one company and the sales derived from them or from none;
\* a sale is tried with no quotation and with every primary key.
SaleScope ==
    [models |-> {"Quotation", "Sale"},
     rows |-> MaxRows, total |-> Unbounded,
     inputs |-> [persons_company |-> {1},
                 status |-> {SALE_STATUSTYPE_DRAFT},
                 quotation_date |-> {0}, sale_date |-> {0}]]

InitSale ==
    /\ db = Fixture([Company |-> {[pk |-> 1]}])
    /\ today = 0
    /\ last = NoOp

NextSale == Step(SaleScope)

SpecSale == InitSale /\ [][NextSale]_vars

\* A company and a contact with their invoicing extensions and the
\* Argentine extensions of these.
ARCustomer ==
    [Company |-> {[pk |-> 1]},
     Contact |-> {[pk |-> 1]},
     PhysicalAddress |-> {[pk |-> 1]},
     FiscalPosition |-> {[pk |-> 1]},
     VAT |-> {[pk |-> 1, tax |-> 0]},
     ConceptType |-> {[pk |-> 1]},
     CompanyInvoice |->
        { [pk |-> 1, persons_company |-> 1, fiscal_position |-> 1,
           fiscal_address |-> 1, default_invoice_debit_account |-> NULL,
           default_invoice_credit_account |-> NULL] },
     ContactInvoice |->
        { [pk |-> 1, contact_contact |-> 1, fiscal_position |-> 1,
           fiscal_address |-> 1] },
     CompanyInvoiceAR |-> { [pk |-> 1, invoice_company |-> 1] },
     ContactInvoiceAR |-> { [pk |-> 1, invoice_contact |-> 1] }]

\* The owners (a company, a contact) and the records that refer to their
\* extensions through protected references.
OwnerScope ==
    [models |-> {"Company", "Contact", "Product", "Invoice", "PointOfSaleAR",
                 "WebServiceSession", "InvoiceAR"},
     rows |-> MaxRows, total |-> MaxObjects,
     inputs |-> [invoice_company |-> {1}, invoice_contact |-> {1},
                 related_invoice |-> {NULL},
                 invoice_type |-> {NULL}, transaction |-> {NULL}, invoice_date |-> {0},
                 status |-> {INVOICE_STATUSTYPE_DRAFT},
                 name |-> {"a"}, vat |-> {1},
                 invoicear_company |-> {1}, invoicear_contact |-> {1},
                 point_of_sale_ar |-> {1}, concept_type |-> {1},
                 afip_id |-> {1}, fiscal_address |-> {1}]]

InitOwner ==
    /\ db = Fixture(ARCustomer)
    /\ today = 0
    /\ last = NoOp

NextOwner == Step(OwnerScope)

SpecOwner == InitOwner /\ [][NextOwner]_vars

\* The rows that `stored` holds of the model classes ms.
RECURSIVE StoredRows(_, _)
StoredRows(stored, ms) ==
    IF ms = {} THEN 0
    ELSE LET m == CHOOSE x \in ms : TRUE
         IN  (IF m \in DOMAIN stored THEN Cardinality(stored[m]) ELSE 0)
                + StoredRows(stored, ms \ {m})

\* The model classes of the references that lead from the address of a
\* company to the Argentine invoices: the address, the extensions, products,
\* lines, points of sale, invoices.
IntegrityModels ==
    { "PhysicalAddress", "CompanyInvoice", "CompanyInvoiceAR", "Product",
      "InvoiceLine", "Invoice", "PointOfSaleAR", "InvoiceAR" }

\* Starting from ARCustomer, up to MaxObjects rows more than it holds; an
\* invoice is tried with a related invoice and with an invoice type that is
\* never stored, a product with a VAT that is never stored.
IntegrityScope ==
    [models |-> IntegrityModels,
     rows |-> MaxRows,
     total |-> StoredRows(ARCustomer, IntegrityModels) + MaxObjects,
     inputs |-> [persons_company |-> {1}, fiscal_position |-> {1},
                 fiscal_address |-> {1},
                 default_invoice_debit_account |-> {NULL},
                 default_invoice_credit_account |-> {NULL},
                 invoice_company |-> {1}, invoice_contact |-> {1},
                 related_invoice |-> {NULL, 1},
                 invoice_type |-> {NULL, 1}, transaction |-> {NULL},
                 invoice_date |-> {0},
                 status |-> {INVOICE_STATUSTYPE_DRAFT},
                 name |-> {"a"}, vat |-> {1, 2},
                 product |-> {1}, discount |-> {0},
                 invoicear_company |-> {1}, invoicear_contact |-> {1},
                 point_of_sale_ar |-> {1}, concept_type |-> {1},
                 afip_id |-> {1}]]

InitIntegrity ==
    /\ db = Fixture(ARCustomer)
    /\ today = 0
    /\ last = NoOp

NextIntegrity == Step(IntegrityScope)

SpecIntegrity == InitIntegrity /\ [][NextIntegrity]_vars

\* --------------------------------------------------------------- claims

\* Some stored row of model m holds pk in its field.
RefersTo(m, field, pk) == \E r \in db[m] : r[field] = pk

\* The records the protected-reference rule names for each kind of master
\* data: does one of them refer to the row pk of m?
C1_Referenced(m, pk) ==
    CASE m = "VAT" ->
             \/ RefersTo("Product", "vat", pk)
             \/ RefersTo("QuotationLine", "product_vat_override", pk)
      [] m = "Product" ->
             \/ RefersTo("InvoiceLine", "product", pk)
             \/ RefersTo("QuotationLine", "product", pk)
      [] m = "Account" ->
             \/ RefersTo("CompanyInvoice", "default_invoice_debit_account", pk)
             \/ RefersTo("CompanyInvoice", "default_invoice_credit_account", pk)
      [] m = "FiscalPosition" ->
             \/ RefersTo("CompanyInvoice", "fiscal_position", pk)
             \/ RefersTo("ContactInvoice", "fiscal_position", pk)

\* C1: deleting a VAT, Product, Account or FiscalPosition that an existing
\* record refers to (a Product or line for the VAT, an InvoiceLine or
\* QuotationLine for the Product, a CompanyInvoice default account for the
\* Account, a CompanyInvoice or ContactInvoice for the FiscalPosition) is
\* rejected, and the stored records are the same after the rejected delete as
\* before it.
C1_ProtectedDeleteRejected ==
    [][ \A m \in {"VAT", "Product", "Account", "FiscalPosition"} :
          \A pk \in PksOf(m) :
            ( /\ last'.op = "delete" /\ last'.model = m /\ last'.pk = pk
              /\ C1_Referenced(m, pk) )
            => (last'.result = "ProtectedError" /\ db' = db) ]_vars

\* C1 witness: the delete of a Product that an InvoiceLine refers to has just
\* been rejected.
C1_Witness ==
    /\ last.op = "delete" /\ last.model = "Product"
    /\ last.result = "ProtectedError"
    /\ RefersTo("InvoiceLine", "product", last.pk)

\* C9: a ContactInvoice cannot be stored without a fiscal position: an attempt
\* to store one with none is rejected on that field, and every stored
\* ContactInvoice refers to a stored FiscalPosition.  (That a CompanyInvoice
\* can be stored with none is the state C9_Witness reaches.)
C9_ContactFiscalPositionRequired ==
    /\ \A r \in db["ContactInvoice"] :
           r.fiscal_position \in PksOf("FiscalPosition")
    /\ ( /\ last.model = "ContactInvoice"
         /\ last.op \in {"create", "update"}
         /\ last.vals.fiscal_position = NULL )
       => ( /\ last.result = "ValidationError"
            /\ "fiscal_position" \in last.errors )

\* C9 witness: a ContactInvoice without fiscal position has just been
\* rejected for that field alone, while a CompanyInvoice is stored with no
\* fiscal position.
C9_Witness ==
    /\ last.model = "ContactInvoice" /\ last.op = "create"
    /\ last.vals.fiscal_position = NULL
    /\ last.errors = {"fiscal_position"}
    /\ \E r \in db["CompanyInvoice"] : r.fiscal_position = NULL

\* C2: for every Company that has a CompanyInvoice and every Contact that has
\* a ContactInvoice, deleting the Company (the Contact) deletes the extension
\* too: after the delete neither the owner nor a CompanyInvoice
\* (ContactInvoice) of it is stored.
C2_OwnerDeleteCascades ==
    (last.op = "delete" /\ last.result = "ok")
    => /\ last.model = "Company"
          => /\ last.pk \notin PksOf("Company")
             /\ ~RefersTo("CompanyInvoice", "persons_company", last.pk)
       /\ last.model = "Contact"
          => /\ last.pk \notin PksOf("Contact")
             /\ ~RefersTo("ContactInvoice", "contact_contact", last.pk)

\* C2 witness: a Company has just been deleted and its CompanyInvoice with
\* it, while a Contact and its ContactInvoice are stored.
C2_Witness ==
    /\ last.op = "delete" /\ last.model = "Company" /\ last.result = "ok"
    /\ \E x \in last.deleted : x[1] = "CompanyInvoice"
    /\ db["ContactInvoice"] # {}

\* Row r of m is an extension whose owner the step removes: a CompanyInvoice
\* of a removed Company, a ContactInvoice of a removed Contact, a
\* CompanyInvoiceAR of a removed CompanyInvoice, a ContactInvoiceAR of a
\* removed ContactInvoice.
C3_OwnerRemoved(m, r) ==
    CASE m = "CompanyInvoice" ->
             \A c \in db'["Company"] : c.pk # r.persons_company
      [] m = "ContactInvoice" ->
             \A c \in db'["Contact"] : c.pk # r.contact_contact
      [] m = "CompanyInvoiceAR" ->
             \A c \in db'["CompanyInvoice"] : c.pk # r.invoice_company
      [] m = "ContactInvoiceAR" ->
             \A c \in db'["ContactInvoice"] : c.pk # r.invoice_contact
      [] OTHER -> FALSE

\* C3: cascade deletion happens only along the owned one-to-one links
\* Company->CompanyInvoice, Contact->ContactInvoice,
\* CompanyInvoice->CompanyInvoiceAR and ContactInvoice->ContactInvoiceAR: a
\* delete removes, besides the row it is called on, only extensions whose
\* owner it removes; in particular the delete of a PhysicalAddress removes no
\* CompanyInvoice or ContactInvoice that has it as fiscal_address.
C3_CascadeOnlyAlongExtensions ==
    [][ last'.op = "delete"
        => \A m \in Models : \A r \in db[m] :
             (r \notin db'[m] /\ ~(m = last'.model /\ r.pk = last'.pk))
             => C3_OwnerRemoved(m, r) ]_vars

\* The step is a create or update of m with the candidate row in last'.vals.
Saved(m) ==
    /\ last'.model = m /\ last'.op \in {"create", "update"}
    /\ last' # last

\* No two stored rows of m agree on all the fields of u.
NoTwoAgree(m, u) ==
    \A p \in db[m] : \A q \in db[m] :
        (p.pk # q.pk) => \E n \in u : p[n] # q[n]

\* A stored row of m other than the one the step saves agrees with the
\* candidate row on all the fields of u.
WouldDuplicate(m, u) ==
    \E r \in db[m] : r.pk # last'.pk /\ \A n \in u : r[n] = last'.vals[n]

\* C7: after any sequence of Product creations, renames, company
\* reassignments and deletions no two stored Products have the same
\* (invoice_company, name); an insert or update that would make two is
\* rejected and leaves the stored Products as they were.  (The same name
\* under two companies is stored in the state C7_Witness reaches.)
C7_ProductNameUniquePerCompany ==
    /\ [] NoTwoAgree("Product", {"invoice_company", "name"})
    /\ [][ (Saved("Product")
            /\ WouldDuplicate("Product", {"invoice_company", "name"}))
           => (last'.result = "ValidationError" /\ db' = db) ]_vars

\* C7 witness: two Products with one name under two companies are stored, and
\* an update that would give the second the company of the first has just been
\* rejected by the uniqueness check alone.
C7_Witness ==
    /\ \E p \in db["Product"] : \E q \in db["Product"] :
          p.name = q.name /\ p.invoice_company # q.invoice_company
    /\ last.model = "Product" /\ last.op = "update"
    /\ last.result = "ValidationError" /\ last.errors = {"__all__"}

\* C8: after any sequence of PointOfSaleAR creations, updates and deletions
\* no two stored PointOfSaleAR have the same (invoicear_company, afip_id); an
\* insert or update that would make two is rejected and leaves the stored
\* records as they were.  (The same afip_id under two companies is stored in
\* the state C8_Witness reaches.)
C8_AfipIdUniquePerCompany ==
    /\ [] NoTwoAgree("PointOfSaleAR", {"invoicear_company", "afip_id"})
    /\ [][ (Saved("PointOfSaleAR")
            /\ WouldDuplicate("PointOfSaleAR",
                              {"invoicear_company", "afip_id"}))
           => (last'.result = "ValidationError" /\ db' = db) ]_vars

\* C8 witness: two points of sale with one afip_id under two companies are
\* stored, and an insert of a third with the afip_id and company of one of
\* them has just been rejected by the uniqueness check alone.
C8_Witness ==
    /\ \E p \in db["PointOfSaleAR"] : \E q \in db["PointOfSaleAR"] :
          p.afip_id = q.afip_id /\ p.invoicear_company # q.invoicear_company
    /\ last.model = "PointOfSaleAR" /\ last.op = "create"
    /\ last.result = "ValidationError" /\ last.errors = {"__all__"}

\* The one-to-one extensions: the model class and its owner field.
C10_Extensions ==
    { <<"CompanyInvoice", "persons_company">>,
      <<"ContactInvoice", "contact_contact">>,
      <<"CompanyInvoiceAR", "invoice_company">>,
      <<"ContactInvoiceAR", "invoice_contact">>,
      <<"ProductSales", "invoice_product">> }

\* C10: the extensions are one-to-one: in every state each Company has at
\* most one CompanyInvoice, each Contact at most one ContactInvoice, each
\* CompanyInvoice at most one CompanyInvoiceAR, each ContactInvoice at most
\* one ContactInvoiceAR and each Product at most one ProductSales; a create
\* of a second extension for an owner that has one fails on the owner field.
C10_ExtensionsOneToOne ==
    \A e \in C10_Extensions :
        /\ NoTwoAgree(e[1], {e[2]})
        /\ ( /\ last.op = "create" /\ last.model = e[1]
             /\ \E r \in db[e[1]] :
                    r.pk # last.pk /\ r[e[2]] = last.vals[e[2]] )
           => (last.result = "ValidationError" /\ e[2] \in last.errors)

\* C10 witness: every extension is stored, and the create of a second
\* ProductSales for the Product that has one has just been rejected.
C10_Witness ==
    /\ \A e \in C10_Extensions : db[e[1]] # {}
    /\ last.op = "create" /\ last.model = "ProductSales"
    /\ last.result = "ValidationError"
    /\ last.errors = {"invoice_product"}

\* A fraction within [0.00, 1.00].
InUnitRange(x) == 0 <= x /\ x <= One

\* The last operation saved a row of m, and refused it exactly when the value
\* of the field is outside [0.00, 1.00]; an accepted row is stored as given.
FractionChecked(m, field) ==
    (last.model = m /\ last.op \in {"create", "update"})
    => /\ (last.result = "ValidationError") <=> ~InUnitRange(last.vals[field])
       /\ (last.result = "ok") => Row(last.pk, last.vals) \in db[m]

\* C4: every discount field (InvoiceLine.discount,
\* QuotationLine.product_discount, SaleLine.product_discount) refuses on
\* validation a value below 0.00 or above 1.00 and accepts every value in
\* [0.00, 1.00], both bounds included; no validated line stores a discount
\* outside [0.00, 1.00].
C4_DiscountWithinUnitRange ==
    /\ FractionChecked("InvoiceLine", "discount")
    /\ FractionChecked("QuotationLine", "product_discount")
    /\ FractionChecked("SaleLine", "product_discount")
    /\ \A r \in db["InvoiceLine"] : InUnitRange(r.discount)
    /\ \A r \in db["QuotationLine"] : InUnitRange(r.product_discount)
    /\ \A r \in db["SaleLine"] : InUnitRange(r.product_discount)

\* C5: validation of a VAT refuses every tax below 0.00 or above 1.00 and
\* accepts every two-decimal tax in [0.00, 1.00], 0.00 and 1.00 included;
\* every validated VAT stores a tax within [0.00, 1.00].
C5_TaxWithinUnitRange ==
    /\ FractionChecked("VAT", "tax")
    /\ \A r \in db["VAT"] : InUnitRange(r.tax)

\* C5 witness: a VAT of 0.00 and a VAT of 1.00 are stored, and a tax of 1.01
\* has just been refused.
C5_Witness ==
    /\ \E r \in db["VAT"] : r.tax = 0
    /\ \E r \in db["VAT"] : r.tax = One
    /\ last.model = "VAT" /\ last.result = "ValidationError"
    /\ last.vals.tax = One + 1

\* The dated documents: the model class and its date field.
C6_Dates ==
    { <<"Invoice", "invoice_date">>, <<"Quotation", "quotation_date">>,
      <<"Sale", "sale_date">> }

\* C6: for Invoice.invoice_date, Quotation.quotation_date and Sale.sale_date
\* validation refuses a date later than the current date and accepts the
\* current date and every earlier one; a refused record is not stored (the
\* stored records stay as they were), an accepted one is.
C6_FutureDateRejected ==
    [][ \A e \in C6_Dates :
          Saved(e[1])
          => IF last'.vals[e[2]] > today
             THEN /\ last'.result = "ValidationError"
                  /\ e[2] \in last'.errors
                  /\ db' = db
             ELSE /\ last'.result = "ok"
                  /\ Row(last'.pk, last'.vals) \in db'[e[1]] ]_vars

\* C6 witness: on a day after day 0 an Invoice dated that day is stored and
\* the update of a Sale to the day after has just been refused for its date.
C6_Witness ==
    /\ today > 0
    /\ \E r \in db["Invoice"] : r.invoice_date = today
    /\ last.model = "Sale" /\ last.op = "update"
    /\ last.vals.sale_date = today + 1
    /\ last.result = "ValidationError" /\ last.errors = {"sale_date"}

\* The documents with a status: the model class, its enumeration and its
\* Draft.
C11_Statuses ==
    { <<"Invoice", {"D", "A", "T", "C"}, "D">>,
      <<"Quotation", {"D", "SA", "SO", "C"}, "D">>,
      <<"Sale", {"D", "S", "I", "C"}, "D">> }

\* C11: every validated Invoice has a status in {Draft, Accepted, Authorized,
\* Canceled}, every Quotation one in {Draft, Saved, Sold, Canceled} and every
\* Sale one in {Draft, Saved, Invoiced, Canceled}; a record created without
\* an explicit status is Draft (and is stored), and a status outside the
\* record's own enumeration is refused by validation, one inside it is not.
C11_StatusInEnumeration ==
    \A e \in C11_Statuses :
        /\ \A r \in db[e[1]] : r.status \in e[2]
        /\ (last.model = e[1] /\ last.op \in {"create", "update"})
           => /\ "status" \notin last.given
                 => /\ last.vals.status = e[3]
                    /\ last.result = "ok"
                    /\ Row(last.pk, last.vals) \in db[e[1]]
              /\ last.vals.status \notin e[2]
                 => /\ last.result = "ValidationError"
                    /\ "status" \in last.errors
              /\ last.vals.status \in e[2] => last.result = "ok"

\* C11 witness: a Sale has just been created with no status given and is
\* stored as Draft.
C11_Witness ==
    /\ last.model = "Sale" /\ last.op = "create"
    /\ "status" \notin last.given
    /\ \E r \in db["Sale"] : r.pk = last.pk /\ r.status = "D"

\* The update of the stored row r of m that sets its status to b, and nothing
\* else, goes through.
C12_Moves(m, r, b) ==
    /\ last'.op = "update" /\ last'.model = m /\ last'.pk = r.pk
    /\ last'.result = "ok"
    /\ db' = [db EXCEPT ![m] = (@ \ {r}) \cup {[r EXCEPT !.status = b]}]

\* C12: status changes are unguarded: for Invoice, Quotation and Sale an
\* update may move the status of a stored record from the value it has to
\* any value of the enumeration (Canceled back to Draft, Authorized to
\* Draft, ...), so no status is terminal.
C12_StatusChangesUnguarded ==
    \A e \in C11_Statuses :
        \A r \in db[e[1]] :
            \A b \in e[2] : ENABLED (NextStatus /\ C12_Moves(e[1], r, b))

\* C12 witness: an Invoice has just been updated to Canceled, and its update
\* back to Draft is possible.
C12_Witness ==
    /\ last.op = "update" /\ last.model = "Invoice" /\ last.result = "ok"
    /\ \E r \in db["Invoice"] :
          /\ r.pk = last.pk /\ r.status = "C"
          /\ ENABLED (NextStatus /\ C12_Moves("Invoice", r, "D"))

\* C13: a Sale is optionally derived from a Quotation through a one-to-one
\* link: a Sale with no quotation is accepted; after any sequence of
\* creations and updates each Quotation is the source of at most one Sale;
\* linking a second Sale to a Quotation that a Sale is linked to fails on the
\* link.
C13_SaleOfQuotation ==
    /\ \A r1, r2 \in db["Sale"] :
          (r1.quotation # NULL /\ r1.quotation = r2.quotation) => r1 = r2
    /\ (last.model = "Sale" /\ last.op \in {"create", "update"})
       => /\ last.vals.quotation = NULL => last.result = "ok"
          /\ (\E r \in db["Sale"] : /\ r.pk # last.pk
                                    /\ last.vals.quotation # NULL
                                    /\ r.quotation = last.vals.quotation)
             => /\ last.result = "ValidationError"
                /\ "quotation" \in last.errors

\* C13 witness: one Sale is stored with no quotation and one is linked to a
\* Quotation; the creation of another Sale linked to that Quotation has just
\* been refused for the link alone.
C13_Witness ==
    /\ \E r \in db["Sale"] : r.quotation = NULL
    /\ \E r \in db["Sale"] :
          /\ r.quotation \in PksOf("Quotation")
          /\ last.vals = ValsOf("Sale", r)
    /\ last.model = "Sale" /\ last.op = "create"
    /\ last.result = "ValidationError" /\ last.errors = {"quotation"}

\* The row pk of m (Company or Contact) has an invoicing extension that a
\* Product or an Invoice refers to, or an Argentine extension that a
\* PointOfSaleAR, a WebServiceSession or an InvoiceAR refers to.
C14_ExtensionReferenced(m, pk) ==
    CASE m = "Company" ->
           \E ci \in db["CompanyInvoice"] :
              /\ ci.persons_company = pk
              /\ \/ RefersTo("Product", "invoice_company", ci.pk)
                 \/ RefersTo("Invoice", "invoice_company", ci.pk)
                 \/ \E ar \in db["CompanyInvoiceAR"] :
                       /\ ar.invoice_company = ci.pk
                       /\ \/ RefersTo("PointOfSaleAR", "invoicear_company",
                                      ar.pk)
                          \/ RefersTo("WebServiceSession",
                                      "invoicear_company", ar.pk)
                          \/ RefersTo("InvoiceAR", "invoicear_company", ar.pk)
      [] m = "Contact" ->
           \E ci \in db["ContactInvoice"] :
              /\ ci.contact_contact = pk
              /\ \/ RefersTo("Invoice", "invoice_contact", ci.pk)
                 \/ \E ar \in db["ContactInvoiceAR"] :
                       /\ ar.invoice_contact = ci.pk
                       /\ RefersTo("InvoiceAR", "invoicear_contact", ar.pk)

\* C14: protection wins over cascade: the delete of a Company (Contact)
\* whose CompanyInvoice (ContactInvoice) a Product or Invoice refers to, or
\* whose CompanyInvoiceAR (ContactInvoiceAR) a PointOfSaleAR,
\* WebServiceSession or InvoiceAR refers to, is rejected as a whole: neither
\* the owner nor any extension, nor any other record, is deleted.
C14_ProtectionWinsOverCascade ==
    [][ \A m \in {"Company", "Contact"} :
          \A pk \in PksOf(m) :
            ( /\ last'.op = "delete" /\ last'.model = m /\ last'.pk = pk
              /\ last' # last
              /\ C14_ExtensionReferenced(m, pk) )
            => (last'.result = "ProtectedError" /\ db' = db) ]_vars

\* C14 witness: the delete of a Company has just been rejected while the only
\* record that refers to its extensions is a WebServiceSession of its
\* CompanyInvoiceAR, two cascades away from the Company.
C14_Witness ==
    /\ last.op = "delete" /\ last.model = "Company"
    /\ last.result = "ProtectedError"
    /\ db["WebServiceSession"] # {}
    /\ db["Product"] = {} /\ db["Invoice"] = {} /\ db["PointOfSaleAR"] = {}
    /\ db["CompanyInvoiceAR"] # {} /\ db["CompanyInvoice"] # {}

\* C15: referential integrity is an invariant: after any sequence of
\* successful and rejected create, update and delete operations every
\* non-null foreign-key or one-to-one reference of every stored record
\* (Invoice.related_invoice, InvoiceLine.product, Product.vat,
\* Invoice.invoice_company and invoice_contact, the references of InvoiceAR
\* and its parent link among them) names a stored record.
C15_ReferentialIntegrity ==
    \A m \in Models :
        \A r \in db[m] :
            \A f \in Fields(m) :
                (IsRelation(f) /\ r[f.name] # NULL)
                => r[f.name] \in PksOf(f.to)

\* C15 witness: the delete of an InvoiceAR has just removed it and its
\* Invoice row, while an Invoice that is its own related invoice, the point
\* of sale and a Product are stored.
C15_Witness ==
    /\ last.op = "delete" /\ last.model = "InvoiceAR" /\ last.result = "ok"
    /\ <<"Invoice", last.pk>> \in last.deleted
    /\ \E r \in db["Invoice"] : r.related_invoice = r.pk
    /\ db["PointOfSaleAR"] # {} /\ db["Product"] # {}

\* C16: with a current date that never moves backwards, every Invoice,
\* Quotation and Sale stored through validation has, in every later state,
\* an issuance date not later than the current date, although the date may
\* be edited: each edit is validated against the current date.
C16_StoredDatesNotInFuture ==
    \A e \in C6_Dates : \A r \in db[e[1]] : r[e[2]] <= today

\* C16 witness: after the clock has moved, an Invoice dated on an earlier
\* day is stored and the date of a Quotation has just been edited to the
\* current date.
C16_Witness ==
    /\ today > 0
    /\ \E r \in db["Invoice"] : r.invoice_date < today
    /\ last.model = "Quotation" /\ last.op = "update" /\ last.result = "ok"
    /\ last.vals.quotation_date = today
    /\ \E r \in db["Quotation"] : r.pk = last.pk /\ r.quotation_date = today

====
